---- MODULE Spec2Model ----
(***************************************************************************)
(* Model of backend/src/python/lldb-tracer.py: the LLDBTracer session      *)
(* (generate_trace and the helpers it calls) as a state machine, and the   *)
(* pure helpers (is_user_code, get_variable_info, detect_step_type) as     *)
(* operators.  Python strings are TLA+ strings; Python's None is PyNone.   *)
(***************************************************************************)
EXTENDS Integers, Sequences, FiniteSets, TLC

VARIABLES
    pc,                    \* position of control in main / generate_trace
    platform,              \* sys.platform: "unix" or "win32"
    semantic_info,         \* main's semantic_info argument (PyNone or a dict)
    user_source_file,      \* self.user_source_file
    user_source_basename,  \* self.user_source_basename
    target,                \* self.target: "none", "valid" or "invalid"
    process,               \* self.process: "none", "invalid", "stopped", "exited", "killed"
    trace,                 \* self.trace
    step_id,               \* self.step_id
    last_frame_signature,  \* self.last_frame_signature
    found_user_code,       \* self.found_user_code
    step_count,            \* generate_trace local
    previous_locals,       \* generate_trace local
    stuck_count,           \* generate_trace local
    stop,                  \* what the backend reports at the current stop
    alarm_armed,           \* a SIGALRM timer is pending (signal.alarm)
    budget_exceeded,       \* the wall clock has passed timeout_seconds
    exc,                   \* exception in flight ("none" when there is none)
    loop_exit,             \* which way the stepping loop was left
    stdout,                \* what main printed on standard output
    step_over_issued,      \* thread.StepOver has been called
    setup_error,           \* create_target / launch_process raised
    only_user_stops,       \* every stop delivered so far was a user-code frame
    recorded_signatures,   \* signature of the frame each recorded step was taken at
    stops_since_record,    \* stops the backend delivered since the last recorded step
    call                   \* invocation of a pure helper: arguments and result

sessionVars == <<pc, platform, semantic_info, user_source_file, user_source_basename,
                 target, process, trace, step_id, last_frame_signature,
                 found_user_code, step_count, previous_locals, stuck_count, stop,
                 alarm_armed, budget_exceeded, exc, loop_exit, stdout,
                 step_over_issued, setup_error, only_user_stops,
                 recorded_signatures, stops_since_record>>

vars == <<sessionVars, call>>

-----------------------------------------------------------------------------
(* Python values and strings *)

\* Python's None, where the code expects a string or a dict
PyNone == "<None>"

\* Python falsiness of an optional string: None or ''
Falsy(s) == s = PyNone \/ s = ""

\* Python `p in s` on strings
Contains(s, p) ==
    \E i \in 1..(Len(s) - Len(p) + 1) : SubSeq(s, i, i + Len(p) - 1) = p

\* Python s.startswith(p)
StartsWith(s, p) == Len(p) <= Len(s) /\ SubSeq(s, 1, Len(p)) = p

\* Python s.endswith(p)
EndsWith(s, p) == Len(p) <= Len(s) /\ SubSeq(s, Len(s) - Len(p) + 1, Len(s)) = p

UpperAlphabet == "ABCDEFGHIJKLMNOPQRSTUVWXYZ"

LowerAlphabet == "abcdefghijklmnopqrstuvwxyz"

LowerChar(c) ==
    IF \E i \in 1..Len(UpperAlphabet) : SubSeq(UpperAlphabet, i, i) = c
    THEN LET i == CHOOSE j \in 1..Len(UpperAlphabet) : SubSeq(UpperAlphabet, j, j) = c
         IN  SubSeq(LowerAlphabet, i, i)
    ELSE c

\* Python s.lower()
RECURSIVE Lower(_)
Lower(s) ==
    IF s = "" THEN ""
    ELSE LowerChar(SubSeq(s, 1, 1)) \o Lower(SubSeq(s, 2, Len(s)))

\* Python s.split(sep) for a non-empty separator
RECURSIVE SplitFrom(_, _, _)
SplitFrom(s, sep, acc) ==
    IF s = "" THEN <<acc>>
    ELSE IF StartsWith(s, sep)
         THEN <<acc>> \o SplitFrom(SubSeq(s, Len(sep) + 1, Len(s)), sep, "")
         ELSE SplitFrom(SubSeq(s, 2, Len(s)), sep, acc \o SubSeq(s, 1, 1))

Split(s, sep) == SplitFrom(s, sep, "")

\* Python sep.join(parts)
RECURSIVE Join(_, _)
Join(parts, sep) ==
    IF parts = <<>> THEN ""
    ELSE IF Len(parts) = 1 THEN parts[1]
    ELSE parts[1] \o sep \o Join(Tail(parts), sep)

-----------------------------------------------------------------------------
(* os.path (POSIX flavour) as used by __init__ and is_user_code *)

\* os.getcwd()
Cwd == "/work"

\* os.path.join(a, b)
PathJoin(a, b) ==
    IF StartsWith(b, "/") THEN b
    ELSE IF a = "" \/ EndsWith(a, "/") THEN a \o b
    ELSE a \o "/" \o b

\* the component loop of os.path.normpath
RECURSIVE NormComps(_, _, _)
NormComps(comps, rooted, acc) ==
    IF comps = <<>> THEN acc
    ELSE LET c == Head(comps)
             rest == Tail(comps)
         IN  IF c = "" \/ c = "."
             THEN NormComps(rest, rooted, acc)
             ELSE IF c # ".." \/ (~rooted /\ acc = <<>>)
                          \/ (acc # <<>> /\ acc[Len(acc)] = "..")
                  THEN NormComps(rest, rooted, Append(acc, c))
                  ELSE IF acc # <<>>
                       THEN NormComps(rest, rooted, SubSeq(acc, 1, Len(acc) - 1))
                       ELSE NormComps(rest, rooted, acc)

\* os.path.normpath(p)
NormPath(p) ==
    IF p = "" THEN "."
    ELSE LET rooted == StartsWith(p, "/")
             slashes == IF ~rooted THEN ""
                        ELSE IF StartsWith(p, "//") /\ ~StartsWith(p, "///")
                             THEN "//" ELSE "/"
             body == Join(NormComps(Split(p, "/"), rooted, <<>>), "/")
             path == slashes \o body
         IN  IF path = "" THEN "." ELSE path

\* os.path.abspath(p)
AbsPath(p) == NormPath(IF StartsWith(p, "/") THEN p ELSE PathJoin(Cwd, p))

\* os.path.basename(p)
BaseName(p) == LET parts == Split(p, "/") IN parts[Len(parts)]

-----------------------------------------------------------------------------
(* LLDBTracer.__init__: the filter's configuration *)

\* self.user_source_file after __init__, for a semantic_info dict
InitUserSourceFile(info) ==
    IF Falsy(info.source_file) THEN info.source_file
    ELSE NormPath(AbsPath(info.source_file))

\* self.user_source_basename after __init__, for a semantic_info dict
InitUserSourceBasename(info) ==
    IF Falsy(info.source_file) THEN PyNone
    ELSE BaseName(InitUserSourceFile(info))

-----------------------------------------------------------------------------
(* LLDBTracer.is_user_code *)

system_patterns ==
    << "crt", "msvcrt", "vcruntime", "ucrtbase",
       "iostream", "ostream", "istream",
       "locale", "xlocale", "iosfwd", "streambuf",
       "kernel32", "ntdll", "libc", "libstdc++",
       "basic_", "char_traits", "__" >>

source_extensions == << ".c", ".cpp", ".cc", ".cxx", ".C" >>

system_dirs ==
    << "include/c++", "windows kits", "microsoft visual studio",
       "program files", "mingw", "gcc", "clang", "llvm",
       "/usr/include", "/usr/lib" >>

\* Strategy 1: exact match with the known source file
MatchesSourceFile(frame, source_file) ==
    /\ ~Falsy(source_file)
    /\ NormPath(AbsPath(PathJoin(IF Falsy(frame.directory) THEN "" ELSE frame.directory,
                                 frame.filename))) = source_file

\* Strategy 2: basename match
MatchesBasename(frame, basename) ==
    /\ ~Falsy(basename)
    /\ frame.filename = basename

\* the deny list matched against the filename as spelled
MatchesSystemPatternCaseSensitive(file_path) ==
    \E i \in 1..Len(system_patterns) : Contains(file_path, system_patterns[i])

\* the deny list over the lower-cased filename
MatchesSystemPattern(file_path) ==
    \E i \in 1..Len(system_patterns) : Contains(Lower(file_path), system_patterns[i])

\* Strategy 3: a native-source extension outside the system directories
AcceptedByExtension(frame) ==
    /\ \E i \in 1..Len(source_extensions) : EndsWith(frame.filename, source_extensions[i])
    /\ LET directory_lower == Lower(IF Falsy(frame.directory) THEN "" ELSE frame.directory)
       IN  ~\E i \in 1..Len(system_dirs) : Contains(directory_lower, system_dirs[i])

is_user_code(frame, source_file, basename) ==
    IF ~frame.valid THEN FALSE
    ELSE IF ~frame.line_entry_valid THEN FALSE
    ELSE IF ~frame.file_spec_valid THEN FALSE
    ELSE IF Falsy(frame.filename) THEN FALSE
    ELSE IF MatchesSourceFile(frame, source_file) THEN TRUE
    ELSE IF MatchesBasename(frame, basename) THEN TRUE
    ELSE IF MatchesSystemPattern(frame.filename) THEN FALSE
    ELSE AcceptedByExtension(frame)

-----------------------------------------------------------------------------
(* Python values held in a snapshot.  A value is [t, s, items]: t its Python   *)
(* type, s its str() when it is a scalar, items its elements when it is a list *)

PyNoneValue == [t |-> "none", s |-> "None", items |-> <<>>]

PyInt(n) == [t |-> "int", s |-> ToString(n), items |-> <<>>]

PyFloat(text) == [t |-> "float", s |-> text, items |-> <<>>]

PyBool(b) == [t |-> "bool", s |-> IF b THEN "True" ELSE "False", items |-> <<>>]

PyString(text) == [t |-> "str", s |-> text, items |-> <<>>]

\* a list of values (array elements) or of member_info dicts (class members)
PyList(kind, items) == [t |-> kind, s |-> "", items |-> items]

\* repr() of a Python string
ReprString(text) ==
    IF Contains(text, "'") /\ ~Contains(text, "\"")
    THEN "\"" \o text \o "\""
    ELSE "'" \o text \o "'"

\* repr() of a scalar value
ReprScalar(v) == IF v.t = "str" THEN ReprString(v.s) ELSE v.s

\* repr() of a member_info dict
ReprMember(m) ==
    "{'name': " \o ReprString(m.name) \o ", 'type': " \o ReprString(m.type)
    \o ", 'value': " \o ReprScalar(m.value)
    \o ", 'address': " \o ReprString(m.address) \o "}"

\* str() of a value, as detect_step_type compares values
PyStr(v) ==
    IF v.t = "list"
    THEN "[" \o Join([i \in 1..Len(v.items) |-> ReprScalar(v.items[i])], ", ") \o "]"
    ELSE IF v.t = "members"
    THEN "[" \o Join([i \in 1..Len(v.items) |-> ReprMember(v.items[i])], ", ") \o "]"
    ELSE v.s

Digits == "0123456789"

IsDigit(c) == \E i \in 1..Len(Digits) : SubSeq(Digits, i, i) = c

DigitValue(c) == (CHOOSE i \in 1..Len(Digits) : SubSeq(Digits, i, i) = c) - 1

AllDigits(s) == s # "" /\ \A i \in 1..Len(s) : IsDigit(SubSeq(s, i, i))

RECURSIVE DigitsValue(_, _)
DigitsValue(s, acc) ==
    IF s = "" THEN acc
    ELSE DigitsValue(SubSeq(s, 2, Len(s)), acc * 10 + DigitValue(SubSeq(s, 1, 1)))

\* Python s.strip() of blanks
RECURSIVE Strip(_)
Strip(s) ==
    IF StartsWith(s, " ") THEN Strip(SubSeq(s, 2, Len(s)))
    ELSE IF EndsWith(s, " ") THEN Strip(SubSeq(s, 1, Len(s) - 1))
    ELSE s

HasSign(s) == StartsWith(s, "-") \/ StartsWith(s, "+")

Unsigned(s) == IF HasSign(s) THEN SubSeq(s, 2, Len(s)) ELSE s

\* int(text) succeeds: optional blanks, optional sign, decimal digits
IntParses(text) == AllDigits(Unsigned(Strip(text)))

\* int(text), where it succeeds
IntOf(text) ==
    LET body == Strip(text)
        n == DigitsValue(Unsigned(body), 0)
    IN  IF StartsWith(body, "-") THEN 0 - n ELSE n

\* float(text) succeeds: optional sign, digits with at most one decimal point
FloatParses(text) ==
    LET parts == Split(Unsigned(Strip(text)), ".")
    IN  /\ Len(parts) \in {1, 2}
        /\ \A i \in 1..Len(parts) : parts[i] = "" \/ AllDigits(parts[i])
        /\ \E i \in 1..Len(parts) : parts[i] # ""

RECURSIVE StripLeadingZeros(_)
StripLeadingZeros(s) ==
    IF Len(s) > 1 /\ StartsWith(s, "0") THEN StripLeadingZeros(SubSeq(s, 2, Len(s))) ELSE s

RECURSIVE StripTrailingZeros(_)
StripTrailingZeros(s) ==
    IF Len(s) > 1 /\ EndsWith(s, "0") THEN StripTrailingZeros(SubSeq(s, 1, Len(s) - 1)) ELSE s

\* str(float(text)), where float(text) succeeds (short decimal literals)
FloatStrOf(text) ==
    LET body == Strip(text)
        parts == Split(Unsigned(body), ".")
        whole == StripLeadingZeros(IF parts[1] = "" THEN "0" ELSE parts[1])
        frac == StripTrailingZeros(IF Len(parts) = 1 \/ parts[Len(parts)] = ""
                                   THEN "0" ELSE parts[2])
    IN  (IF StartsWith(body, "-") THEN "-" ELSE "") \o whole \o "." \o frac

-----------------------------------------------------------------------------
(* The backend's view of a variable (lldb.SBValue) *)

\* variable.GetChildAtIndex(i): elements and members are generated from the
\* parent's description, child i holding the text of child_base + i
GetChildAtIndex(variable, i) ==
    [ name |-> "[" \o ToString(i) \o "]",
      type_name |-> variable.child_type,
      value |-> ToString(variable.child_base + i),
      has_load_address |-> variable.has_load_address,
      load_address |-> variable.load_address + i ]

HexDigits == "0123456789abcdef"

RECURSIVE HexBody(_)
HexBody(n) ==
    IF n < 16 THEN SubSeq(HexDigits, n + 1, n + 1)
    ELSE HexBody(n \div 16) \o SubSeq(HexDigits, (n % 16) + 1, (n % 16) + 1)

\* Python hex(n), n >= 0
Hex(n) == "0x" \o HexBody(n)

\* hex(v.GetLoadAddress()) if v.GetLoadAddress() != LLDB_INVALID_ADDRESS else '0x0'
AddressOf(v) == IF v.has_load_address THEN Hex(v.load_address) ELSE "0x0"

-----------------------------------------------------------------------------
(* LLDBTracer.get_variable_value and get_variable_info *)

get_variable_value(variable) ==
    LET value_str == variable.value
        type_lower == Lower(variable.type_name)
    IN  IF value_str = PyNone THEN PyNoneValue
        ELSE IF Contains(type_lower, "int")
        THEN IF IntParses(value_str) THEN PyInt(IntOf(value_str)) ELSE PyString(value_str)
        ELSE IF Contains(type_lower, "float") \/ Contains(type_lower, "double")
        THEN IF FloatParses(value_str) THEN PyFloat(FloatStrOf(value_str))
             ELSE PyString(value_str)
        ELSE IF Contains(type_lower, "bool")
        THEN PyBool(Lower(value_str) = "true")
        ELSE IF StartsWith(value_str, "\"") /\ EndsWith(value_str, "\"")
        THEN PyString(SubSeq(value_str, 2, Len(value_str) - 1))
        ELSE PyString(value_str)

\* the hard cap on enumerated array elements
ArrayCap == 100

\* Python min(a, b)
Min(a, b) == IF a < b THEN a ELSE b

\* the member_info dict of child i of a class or struct
MemberInfo(variable, i) ==
    LET member == GetChildAtIndex(variable, i)
    IN  [ name |-> member.name,
          type |-> member.type_name,
          value |-> get_variable_value(member),
          address |-> AddressOf(member) ]

\* the element entries of an array without the cap
ArrayElementsUncapped(variable) ==
    [ k \in 1..variable.num_children |->
        get_variable_value(GetChildAtIndex(variable, k - 1)) ]

\* the element entries of an array: children 0 .. min(GetNumChildren(), 100) - 1
ArrayElements(variable) ==
    [ k \in 1..Min(variable.num_children, ArrayCap) |->
        get_variable_value(GetChildAtIndex(variable, k - 1)) ]

\* var_info['primitive'] (PyNone when the key is not set)
StructuralKind(variable) ==
    IF variable.type_class \in {"Class", "Struct"} THEN "class"
    ELSE IF Contains(variable.type_name, "*") THEN "pointer"
    ELSE IF Contains(variable.type_name, "[") \/ variable.is_array_type THEN "array"
    ELSE PyNone

get_variable_info(variable) ==
    LET primitive == StructuralKind(variable)
    IN  [ name |-> variable.name,
          type |-> variable.type_name,
          value |-> IF primitive = "class"
                    THEN PyList("members", [ k \in 1..variable.num_children |->
                                               MemberInfo(variable, k - 1) ])
                    ELSE IF primitive = "array"
                    THEN PyList("list", ArrayElements(variable))
                    ELSE get_variable_value(variable),
          address |-> AddressOf(variable),
          scope |-> "local",
          isAlive |-> TRUE,
          primitive |-> primitive,
          className |-> IF primitive = "class" THEN variable.type_name ELSE PyNone ]

-----------------------------------------------------------------------------
(* LLDBTracer.get_frame_info *)

\* frame_info['locals'][name] = var_info on a dict that keeps insertion order:
\* a name already present keeps its place and takes the new value
DictSet(locals, var_info) ==
    IF \E i \in 1..Len(locals) : locals[i].name = var_info.name
    THEN [ i \in 1..Len(locals) |->
             IF locals[i].name = var_info.name THEN var_info ELSE locals[i] ]
    ELSE Append(locals, var_info)

RECURSIVE CollectLocals(_, _)
CollectLocals(variables, locals) ==
    IF variables = <<>> THEN locals
    ELSE CollectLocals(Tail(variables), DictSet(locals, get_variable_info(Head(variables))))

\* frame.GetFunctionName() or 'unknown'
FunctionNameOf(frame) == IF Falsy(frame.function) THEN "unknown" ELSE frame.function

get_frame_info(frame) ==
    [ function |-> FunctionNameOf(frame),
      line |-> IF frame.line_entry_valid THEN frame.line ELSE 0,
      file |-> IF frame.line_entry_valid THEN frame.filename ELSE "unknown",
      locals |-> CollectLocals(frame.variables, <<>>) ]

-----------------------------------------------------------------------------
(* LLDBTracer.detect_step_type *)

\* var_name in locals
HasKey(locals, var_name) == \E i \in 1..Len(locals) : locals[i].name = var_name

\* locals[var_name]
Lookup(locals, var_name) ==
    locals[CHOOSE i \in 1..Len(locals) : locals[i].name = var_name]

\* a step_type_info dict; a key the code does not set is PyNone
StepTypeInfo(type, className, objectName, variable) ==
    [ type |-> type, className |-> className, objectName |-> objectName,
      variable |-> variable ]

\* lines 299-323: the current locals absent from the previous locals, in order
NewLocalIndexes(current_locals, prev_locals) ==
    { i \in 1..Len(current_locals) : ~HasKey(prev_locals, current_locals[i].name) }

DeclarationInfo(var_info) ==
    IF var_info.primitive = "class"
    THEN StepTypeInfo("object_creation", var_info.className, var_info.name, var_info.name)
    ELSE IF var_info.primitive = "pointer"
    THEN StepTypeInfo("pointer_declaration", PyNone, PyNone, var_info.name)
    ELSE IF var_info.primitive = "array"
    THEN StepTypeInfo("array_declaration", PyNone, PyNone, var_info.name)
    ELSE StepTypeInfo("variable_declaration", PyNone, PyNone, var_info.name)

\* the value-change scan left out
NoChangedLocalIndexes(current_locals, prev_locals) == { }

\* lines 325-332: the current locals whose str(value) differs from the previous one
ChangedLocalIndexes(current_locals, prev_locals) ==
    { i \in 1..Len(current_locals) :
        /\ HasKey(prev_locals, current_locals[i].name)
        /\ PyStr(current_locals[i].value)
             # PyStr(Lookup(prev_locals, current_locals[i].name).value) }

\* lines 334-347: constructor / destructor inference, then the fallback
LifecycleInfo(func_name) ==
    IF Contains(func_name, "::")
    THEN LET parts == Split(func_name, "::")
         IN  IF Len(parts) >= 2
             THEN LET class_name == parts[Len(parts) - 1]
                      method_name == parts[Len(parts)]
                  IN  IF method_name = class_name
                      THEN StepTypeInfo("object_creation", class_name, PyNone, PyNone)
                      ELSE IF StartsWith(method_name, "~")
                      THEN StepTypeInfo("object_destruction", class_name, PyNone, PyNone)
                      ELSE StepTypeInfo("line_execution", PyNone, PyNone, PyNone)
             ELSE StepTypeInfo("line_execution", PyNone, PyNone, PyNone)
    ELSE StepTypeInfo("line_execution", PyNone, PyNone, PyNone)

\* max of a non-empty set of indexes: the last hit of a for loop that does not stop
Last(indexes) == CHOOSE i \in indexes : \A j \in indexes : i >= j

\* min of a non-empty set of indexes: the first hit of a for loop
First(indexes) == CHOOSE i \in indexes : \A j \in indexes : i <= j

\* the mutation-before-introduction variant of detect_step_type
detect_step_type_changes_first(frame_info, prev_locals) ==
    LET current_locals == frame_info.locals
        new == NewLocalIndexes(current_locals, prev_locals)
        changed == ChangedLocalIndexes(current_locals, prev_locals)
    IN  IF changed # {}
        THEN StepTypeInfo("assignment", PyNone, PyNone, current_locals[First(changed)].name)
        ELSE IF new # {} THEN DeclarationInfo(current_locals[First(new)])
        ELSE LifecycleInfo(frame_info.function)

detect_step_type(frame_info, prev_locals) ==
    LET current_locals == frame_info.locals
        new == NewLocalIndexes(current_locals, prev_locals)
        changed == ChangedLocalIndexes(current_locals, prev_locals)
    IN  IF new # {} THEN DeclarationInfo(current_locals[First(new)])
        ELSE IF changed # {}
        THEN StepTypeInfo("assignment", PyNone, PyNone, current_locals[First(changed)].name)
        ELSE LifecycleInfo(frame_info.function)

-----------------------------------------------------------------------------
(* LLDBTracer.should_record_step, split at its two assignments *)

\* the filter left out: any frame with a valid thread passes
PassesFilterAnyFrame(frame, source_file, basename) == frame.thread_valid

\* lines 181-186: the frame is user code and has a valid thread
PassesFilter(frame, source_file, basename) ==
    is_user_code(frame, source_file, basename) /\ frame.thread_valid

\* lines 188-195: (function_name, current_file, current_line, stack_depth)
FrameSignature(frame) ==
    << FunctionNameOf(frame), frame.filename, frame.line, frame.num_frames >>

\* self.last_frame_signature = None
NoSignature == << >>

\* line 201 with None taken for a signature already seen: the first user-code
\* stop is not a new step
IsNewSignatureAfterFirst(signature, last_signature) ==
    last_signature # NoSignature /\ signature # last_signature

\* line 201 with the comparison dropped: every user-code stop is a new step
IsNewSignatureAlways(signature, last_signature) == TRUE

\* line 201: current_frame_signature != self.last_frame_signature
IsNewSignature(signature, last_signature) == signature # last_signature

-----------------------------------------------------------------------------
(* The steps generate_trace appends *)

EmptyState == [ callStack |-> << >>, globals |-> << >>, stack |-> << >>, heap |-> << >> ]

\* lines 408-437: the step of a recorded stop
BuildStep(id, frame_info, step_type_info) ==
    LET has == /\ step_type_info.variable # PyNone
               /\ HasKey(frame_info.locals, step_type_info.variable)
        var_data == Lookup(frame_info.locals, step_type_info.variable)
    IN  [ id |-> id,
          type |-> step_type_info.type,
          line |-> frame_info.line,
          function |-> frame_info.function,
          explanation |-> "Executing line " \o ToString(frame_info.line),
          state |-> [ EmptyState EXCEPT !.callStack = << frame_info >> ],
          className |-> step_type_info.className,
          objectName |-> step_type_info.objectName,
          variable |-> step_type_info.variable,
          has_variable_data |-> has,
          name |-> IF has THEN step_type_info.variable ELSE PyNone,
          dataType |-> IF has THEN var_data.type ELSE PyNone,
          primitive |-> IF ~has THEN PyNone
                        ELSE IF var_data.primitive = PyNone THEN "int"
                        ELSE var_data.primitive,
          value |-> IF has THEN var_data.value ELSE PyNoneValue,
          address |-> IF has THEN var_data.address ELSE PyNone,
          scope |-> IF has THEN "local" ELSE PyNone ]

\* lines 466-477 and 485-491: the synthetic last step
TerminalStep(id, type, line, explanation) ==
    [ id |-> id,
      type |-> type,
      line |-> line,
      function |-> PyNone,
      explanation |-> explanation,
      state |-> EmptyState,
      className |-> PyNone,
      objectName |-> PyNone,
      variable |-> PyNone,
      has_variable_data |-> FALSE,
      name |-> PyNone,
      dataType |-> PyNone,
      primitive |-> PyNone,
      value |-> PyNoneValue,
      address |-> PyNone,
      scope |-> PyNone ]

TerminalTypes == { "program_end", "timeout" }

-----------------------------------------------------------------------------
(* The session's inputs: platform, semantic info, and what the backend delivers *)

\* main: timeout_seconds=30
timeout_seconds == 30

\* generate_trace: max_stuck = 200
max_stuck == 200

\* generate_trace's max_steps argument
MaxSteps == 2

Platforms == { "unix", "win32" }

\* main's semantic_info: None (no second argument) or the loaded dict
SessionInfos ==
    { [ given |-> FALSE, source_file |-> "" ],
      [ given |-> TRUE, source_file |-> "/home/u/main.cpp" ] }

\* an SBValue: its name, type, raw text and children
BackendVariable(name, type_name, type_class, is_array_type, value, n, child_type, base) ==
    [ name |-> name, type_name |-> type_name, type_class |-> type_class,
      is_array_type |-> is_array_type, value |-> value,
      has_load_address |-> TRUE, load_address |-> 4096,
      num_children |-> n, child_type |-> child_type, child_base |-> base ]

IntVariable(name, value) ==
    BackendVariable(name, "int", "Builtin", FALSE, value, 0, "", 0)

BackendFrame(directory, filename, line, function, num_frames, variables) ==
    [ valid |-> TRUE, line_entry_valid |-> TRUE, file_spec_valid |-> TRUE,
      directory |-> directory, filename |-> filename, line |-> line,
      function |-> function, thread_valid |-> TRUE, num_frames |-> num_frames,
      variables |-> variables ]

\* an SBFrame that is not valid
InvalidFrame ==
    [ BackendFrame("", "", 0, PyNone, 0, << >>) EXCEPT
        !.valid = FALSE, !.line_entry_valid = FALSE, !.file_spec_valid = FALSE ]

\* the frames the backend stops at while stepping the target
SessionFrames ==
    { BackendFrame("/home/u", "main.cpp", 1, "main", 1, << >>),
      BackendFrame("/home/u", "main.cpp", 2, "main", 1, << IntVariable("x", "1") >>),
      BackendFrame("/home/u", "main.cpp", 2, "main", 1, << IntVariable("x", "2") >>),
      BackendFrame("/usr/include/c++/11", "ostream", 100, "std::ostream::flush", 2, << >>) }

\* what the engine finds after launch and after each StepOver
StopEvents ==
    { [ process_state |-> "exited", thread_valid |-> FALSE, frame |-> InvalidFrame ],
      [ process_state |-> "stopped", thread_valid |-> FALSE, frame |-> InvalidFrame ],
      [ process_state |-> "stopped", thread_valid |-> TRUE, frame |-> InvalidFrame ] }
    \cup { [ process_state |-> "stopped", thread_valid |-> TRUE, frame |-> f ] :
             f \in SessionFrames }

NoStop == [ process_state |-> "none", thread_valid |-> FALSE, frame |-> InvalidFrame ]

\* the stop is a stopped, valid frame of user code
IsUserStop(s, source_file, basename) ==
    /\ s.process_state \in { "stopped", "suspended" }
    /\ s.thread_valid
    /\ s.frame.valid
    /\ is_user_code(s.frame, source_file, basename)

-----------------------------------------------------------------------------
(* Session state *)

\* the state of a tracer that is not running (the pure helpers' specifications)
SessionIdle ==
    /\ pc = "idle"
    /\ platform = "unix"
    /\ semantic_info = [ given |-> TRUE, source_file |-> "" ]
    /\ user_source_file = ""
    /\ user_source_basename = PyNone
    /\ target = "none"
    /\ process = "none"
    /\ trace = << >>
    /\ step_id = 0
    /\ last_frame_signature = NoSignature
    /\ found_user_code = FALSE
    /\ step_count = 0
    /\ previous_locals = << >>
    /\ stuck_count = 0
    /\ stop = NoStop
    /\ alarm_armed = FALSE
    /\ budget_exceeded = FALSE
    /\ exc = "none"
    /\ loop_exit = "none"
    /\ stdout = << >>
    /\ step_over_issued = FALSE
    /\ setup_error = "none"
    /\ only_user_stops = TRUE
    /\ recorded_signatures = << >>
    /\ stops_since_record = 0

NoCall == [ fn |-> "none", returned |-> FALSE ]

\* main has parsed its arguments; the tracer is about to be constructed
Init ==
    /\ pc = "main"
    /\ platform \in Platforms
    /\ semantic_info \in SessionInfos
    /\ user_source_file = ""
    /\ user_source_basename = PyNone
    /\ target = "none"
    /\ process = "none"
    /\ trace = << >>
    /\ step_id = 0
    /\ last_frame_signature = NoSignature
    /\ found_user_code = FALSE
    /\ step_count = 0
    /\ previous_locals = << >>
    /\ stuck_count = 0
    /\ stop = NoStop
    /\ alarm_armed = FALSE
    /\ budget_exceeded = FALSE
    /\ exc = "none"
    /\ loop_exit = "none"
    /\ stdout = << >>
    /\ step_over_issued = FALSE
    /\ setup_error = "none"
    /\ only_user_stops = TRUE
    /\ recorded_signatures = << >>
    /\ stops_since_record = 0
    /\ call = NoCall

-----------------------------------------------------------------------------
(* generate_trace: control flow helpers *)

\* an `except` that catches everything: every exception ends as a timeout
ExceptionLandsAtCatchAll(exception) == "except_timeout"

\* lines 482 and 493: TimeoutException goes to its handler, anything else
\* falls through to the finally block and propagates
ExceptionLandsAt(exception) ==
    IF exception = "TimeoutException" THEN "except_timeout" ELSE "finally_disarm"

\* positions inside the try block (lines 371-480)
SetupPcs == { "create_target", "create_check", "launch", "launch_check", "loop_init" }

LoopPcs == { "loop_head", "srs_mark", "srs_compare", "record_step", "inc_step_id",
             "bookkeeping", "not_recorded", "step_over" }

TryPcs == SetupPcs \cup LoopPcs \cup { "final_step", "final_print" }

\* self.is_process_running(), lines 349-355
is_process_running(proc) == proc \in { "stopped", "suspended" }

\* lines 380-400: the reason the loop is left at the top of an iteration, or "none"
LoopExitAt(count, max_steps, plat, exceeded, proc, s) ==
    IF ~(count < max_steps) THEN "step_limit"
    ELSE IF plat = "win32" /\ exceeded THEN "manual_timeout"
    ELSE IF ~is_process_running(proc) THEN "process_ended"
    ELSE IF ~s.thread_valid THEN "no_thread"
    ELSE IF ~s.frame.valid THEN "no_frame"
    ELSE "none"

\* the else branch without the increment
UncountedStuck(count) == count

\* line 450: stuck_count += 1
CountedStuck(count) == count + 1

\* the limit taken one stop early
StuckLimitReached(count) == count >= max_stuck

\* line 453: stuck_count > max_stuck
StuckLimitExceeded(count) == count > max_stuck

\* the line of the first step of the trace
FirstLine(steps) == steps[1].line

\* lines 465 and 488: self.trace[-1]['line']
LastLine(steps) == steps[Len(steps)].line

\* the final step left out
WithProgramEndNever(steps, id) == steps

\* lines 464-477: add the final step if there is any trace
WithProgramEnd(steps, id) ==
    IF steps # << >>
    THEN Append(steps, TerminalStep(id, "program_end", LastLine(steps),
                                    "Program execution completed"))
    ELSE steps

\* lines 484-491: add the timeout step if there is any trace
WithTimeout(steps, id) ==
    IF steps # << >>
    THEN Append(steps, TerminalStep(id, "timeout", LastLine(steps),
                    "Execution timed out after " \o ToString(timeout_seconds) \o "s"))
    ELSE steps

-----------------------------------------------------------------------------
(* main and generate_trace, one action per stretch of code between two points *)
(* where the timeout alarm can interrupt with a different effect              *)

\* main lines 508-515 and __init__ lines 34-61: semantic_info.get on None raises
Construct ==
    /\ pc = "main"
    /\ pc' = IF semantic_info.given THEN "arm_alarm" ELSE "done"
    /\ exc' = IF semantic_info.given THEN "none" ELSE "AttributeError"
    /\ user_source_file' = IF semantic_info.given
       THEN InitUserSourceFile(semantic_info) ELSE user_source_file
    /\ user_source_basename' = IF semantic_info.given
       THEN InitUserSourceBasename(semantic_info) ELSE user_source_basename
    /\ UNCHANGED << platform, semantic_info, target, process, trace, step_id,
                    last_frame_signature, found_user_code, step_count, previous_locals,
                    stuck_count, stop, alarm_armed, budget_exceeded, loop_exit, stdout,
                    step_over_issued, setup_error, only_user_stops,
                    recorded_signatures, stops_since_record, call >>

\* lines 364-366: signal.alarm(timeout_seconds), except on win32
ArmAlarm ==
    /\ pc = "arm_alarm"
    /\ pc' = "start_time"
    /\ alarm_armed' = (platform # "win32" /\ timeout_seconds > 0)
    /\ UNCHANGED << platform, semantic_info, user_source_file, user_source_basename,
                    target, process, trace, step_id, last_frame_signature,
                    found_user_code, step_count, previous_locals, stuck_count, stop,
                    budget_exceeded, exc, loop_exit, stdout, step_over_issued,
                    setup_error, only_user_stops, recorded_signatures,
                    stops_since_record, call >>

\* line 368, before the try block is entered
StartTime ==
    /\ pc = "start_time"
    /\ pc' = "create_target"
    /\ UNCHANGED << platform, semantic_info, user_source_file, user_source_basename,
                    target, process, trace, step_id, last_frame_signature,
                    found_user_code, step_count, previous_locals, stuck_count, stop,
                    alarm_armed, budget_exceeded, exc, loop_exit, stdout,
                    step_over_issued, setup_error, only_user_stops,
                    recorded_signatures, stops_since_record, call >>

\* line 65: the backend returns a target, valid or not
CreateTarget ==
    /\ pc = "create_target"
    /\ \E ok \in BOOLEAN : target' = IF ok THEN "valid" ELSE "invalid"
    /\ pc' = "create_check"
    /\ UNCHANGED << platform, semantic_info, user_source_file, user_source_basename,
                    process, trace, step_id, last_frame_signature, found_user_code,
                    step_count, previous_locals, stuck_count, stop, alarm_armed,
                    budget_exceeded, exc, loop_exit, stdout, step_over_issued,
                    setup_error, only_user_stops, recorded_signatures,
                    stops_since_record, call >>

\* lines 66-68 (and set_breakpoints, which does nothing)
CreateCheck ==
    /\ pc = "create_check"
    /\ pc' = IF target = "valid" THEN "launch" ELSE ExceptionLandsAt("Exception")
    /\ exc' = IF target = "valid" THEN exc ELSE "Exception"
    /\ setup_error' = IF target = "valid" THEN setup_error ELSE "create_target"
    /\ UNCHANGED << platform, semantic_info, user_source_file, user_source_basename,
                    target, process, trace, step_id, last_frame_signature,
                    found_user_code, step_count, previous_locals, stuck_count, stop,
                    alarm_armed, budget_exceeded, loop_exit, stdout, step_over_issued,
                    only_user_stops, recorded_signatures, stops_since_record, call >>

\* lines 87-94: the backend returns process and first stop s (NoStop: an invalid process)
LaunchAt(s) ==
    /\ pc = "launch"
    /\ pc' = "launch_check"
    /\ stop' = s
    /\ process' = IF s = NoStop THEN "invalid" ELSE s.process_state
    /\ only_user_stops' = IF s = NoStop THEN only_user_stops
       ELSE IsUserStop(s, user_source_file, user_source_basename)
    /\ stops_since_record' = IF s = NoStop THEN stops_since_record ELSE stops_since_record + 1
    /\ UNCHANGED << platform, semantic_info, user_source_file, user_source_basename,
                    target, trace, step_id, last_frame_signature, found_user_code,
                    step_count, previous_locals, stuck_count, alarm_armed,
                    budget_exceeded, exc, loop_exit, stdout, step_over_issued,
                    setup_error, recorded_signatures >>

\* launch_process against a backend that may deliver any first stop
Launch ==
    /\ \E s \in StopEvents \cup { NoStop } : LaunchAt(s)
    /\ UNCHANGED call

\* lines 96-99
LaunchCheck ==
    /\ pc = "launch_check"
    /\ pc' = IF process \in { "none", "invalid" }
       THEN ExceptionLandsAt("Exception") ELSE "loop_init"
    /\ exc' = IF process \in { "none", "invalid" } THEN "Exception" ELSE exc
    /\ setup_error' = IF process \in { "none", "invalid" }
       THEN "launch_process" ELSE setup_error
    /\ UNCHANGED << platform, semantic_info, user_source_file, user_source_basename,
                    target, process, trace, step_id, last_frame_signature,
                    found_user_code, step_count, previous_locals, stuck_count, stop,
                    alarm_armed, budget_exceeded, loop_exit, stdout, step_over_issued,
                    only_user_stops, recorded_signatures, stops_since_record, call >>

\* lines 375-378
LoopInit ==
    /\ pc = "loop_init"
    /\ pc' = "loop_head"
    /\ step_count' = 0
    /\ previous_locals' = << >>
    /\ stuck_count' = 0
    /\ UNCHANGED << platform, semantic_info, user_source_file, user_source_basename,
                    target, process, trace, step_id, last_frame_signature,
                    found_user_code, stop, alarm_armed, budget_exceeded, exc,
                    loop_exit, stdout, step_over_issued, setup_error, only_user_stops,
                    recorded_signatures, stops_since_record, call >>

\* lines 380-400: the while condition and the four checks that break
LoopHead ==
    /\ pc = "loop_head"
    /\ loop_exit' = LoopExitAt(step_count, MaxSteps, platform, budget_exceeded, process, stop)
    /\ pc' = IF loop_exit' = "none" THEN "srs_mark" ELSE "final_step"
    /\ UNCHANGED << platform, semantic_info, user_source_file, user_source_basename,
                    target, process, trace, step_id, last_frame_signature,
                    found_user_code, step_count, previous_locals, stuck_count, stop,
                    alarm_armed, budget_exceeded, exc, stdout, step_over_issued,
                    setup_error, only_user_stops, recorded_signatures,
                    stops_since_record, call >>

\* should_record_step lines 181-198: filter, then found_user_code = True
SrsMark ==
    /\ pc = "srs_mark"
    /\ found_user_code' = IF PassesFilter(stop.frame, user_source_file, user_source_basename)
       THEN TRUE ELSE found_user_code
    /\ pc' = IF PassesFilter(stop.frame, user_source_file, user_source_basename)
       THEN "srs_compare" ELSE "not_recorded"
    /\ UNCHANGED << platform, semantic_info, user_source_file, user_source_basename,
                    target, process, trace, step_id, last_frame_signature, step_count,
                    previous_locals, stuck_count, stop, alarm_armed, budget_exceeded,
                    exc, loop_exit, stdout, step_over_issued, setup_error,
                    only_user_stops, recorded_signatures, stops_since_record, call >>

\* should_record_step lines 201-205
SrsCompare ==
    /\ pc = "srs_compare"
    /\ last_frame_signature' = IF IsNewSignature(FrameSignature(stop.frame), last_frame_signature)
       THEN FrameSignature(stop.frame) ELSE last_frame_signature
    /\ pc' = IF IsNewSignature(FrameSignature(stop.frame), last_frame_signature)
       THEN "record_step" ELSE "not_recorded"
    /\ UNCHANGED << platform, semantic_info, user_source_file, user_source_basename,
                    target, process, trace, step_id, found_user_code, step_count,
                    previous_locals, stuck_count, stop, alarm_armed, budget_exceeded,
                    exc, loop_exit, stdout, step_over_issued, setup_error,
                    only_user_stops, recorded_signatures, stops_since_record, call >>

\* lines 404-439: snapshot, classify, build the step, self.trace.append(step)
RecordStep ==
    /\ pc = "record_step"
    /\ trace' = LET frame_info == get_frame_info(stop.frame)
       IN  Append(trace, BuildStep(step_id, frame_info,
                                   detect_step_type(frame_info, previous_locals)))
    /\ recorded_signatures' = Append(recorded_signatures, FrameSignature(stop.frame))
    /\ stops_since_record' = 0
    /\ pc' = "inc_step_id"
    /\ UNCHANGED << platform, semantic_info, user_source_file, user_source_basename,
                    target, process, step_id, last_frame_signature, found_user_code,
                    step_count, previous_locals, stuck_count, stop, alarm_armed,
                    budget_exceeded, exc, loop_exit, stdout, step_over_issued,
                    setup_error, only_user_stops, call >>

\* line 440: self.step_id += 1
IncStepId ==
    /\ pc = "inc_step_id"
    /\ step_id' = step_id + 1
    /\ pc' = "bookkeeping"
    /\ UNCHANGED << platform, semantic_info, user_source_file, user_source_basename,
                    target, process, trace, last_frame_signature, found_user_code,
                    step_count, previous_locals, stuck_count, stop, alarm_armed,
                    budget_exceeded, exc, loop_exit, stdout, step_over_issued,
                    setup_error, only_user_stops, recorded_signatures,
                    stops_since_record, call >>

\* lines 441-448: generate_trace's locals after a recorded step
Bookkeeping ==
    /\ pc = "bookkeeping"
    /\ step_count' = step_count + 1
    /\ stuck_count' = 0
    /\ previous_locals' = get_frame_info(stop.frame).locals
    /\ pc' = "step_over"
    /\ UNCHANGED << platform, semantic_info, user_source_file, user_source_basename,
                    target, process, trace, step_id, last_frame_signature,
                    found_user_code, stop, alarm_armed, budget_exceeded, exc,
                    loop_exit, stdout, step_over_issued, setup_error, only_user_stops,
                    recorded_signatures, stops_since_record, call >>

\* lines 450-458: count the stop, break once past max_stuck
NotRecorded ==
    /\ pc = "not_recorded"
    /\ stuck_count' = CountedStuck(stuck_count)
    /\ loop_exit' = IF StuckLimitExceeded(CountedStuck(stuck_count)) THEN "stuck" ELSE loop_exit
    /\ pc' = IF StuckLimitExceeded(CountedStuck(stuck_count))
       THEN "final_step" ELSE "step_over"
    /\ UNCHANGED << platform, semantic_info, user_source_file, user_source_basename,
                    target, process, trace, step_id, last_frame_signature,
                    found_user_code, step_count, previous_locals, stop, alarm_armed,
                    budget_exceeded, exc, stdout, step_over_issued, setup_error,
                    only_user_stops, recorded_signatures, stops_since_record, call >>

\* line 461: thread.StepOver returns at the next stop, s
StepOverAt(s) ==
    /\ pc = "step_over"
    /\ pc' = "loop_head"
    /\ step_over_issued' = TRUE
    /\ stop' = s
    /\ process' = s.process_state
    /\ only_user_stops' = (only_user_stops /\
          IsUserStop(s, user_source_file, user_source_basename))
    /\ stops_since_record' = stops_since_record + 1
    /\ UNCHANGED << platform, semantic_info, user_source_file, user_source_basename,
                    target, trace, step_id, last_frame_signature, found_user_code,
                    step_count, previous_locals, stuck_count, alarm_armed,
                    budget_exceeded, exc, loop_exit, stdout, setup_error,
                    recorded_signatures >>

\* StepOver against a backend that may deliver any next stop
StepOver ==
    /\ \E s \in StopEvents : StepOverAt(s)
    /\ UNCHANGED call

\* lines 463-477
FinalStep ==
    /\ pc = "final_step"
    /\ trace' = WithProgramEnd(trace, step_id)
    /\ pc' = "final_print"
    /\ UNCHANGED << platform, semantic_info, user_source_file, user_source_basename,
                    target, process, step_id, last_frame_signature, found_user_code,
                    step_count, previous_locals, stuck_count, stop, alarm_armed,
                    budget_exceeded, exc, loop_exit, stdout, step_over_issued,
                    setup_error, only_user_stops, recorded_signatures,
                    stops_since_record, call >>

\* lines 479-480, still inside the try block
FinalPrint ==
    /\ pc = "final_print"
    /\ pc' = "finally_disarm"
    /\ UNCHANGED << platform, semantic_info, user_source_file, user_source_basename,
                    target, process, trace, step_id, last_frame_signature,
                    found_user_code, step_count, previous_locals, stuck_count, stop,
                    alarm_armed, budget_exceeded, exc, loop_exit, stdout,
                    step_over_issued, setup_error, only_user_stops,
                    recorded_signatures, stops_since_record, call >>

\* lines 482-491: the TimeoutException handler
ExceptTimeout ==
    /\ pc = "except_timeout"
    /\ trace' = WithTimeout(trace, step_id)
    /\ exc' = "none"
    /\ pc' = "finally_disarm"
    /\ UNCHANGED << platform, semantic_info, user_source_file, user_source_basename,
                    target, process, step_id, last_frame_signature, found_user_code,
                    step_count, previous_locals, stuck_count, stop, alarm_armed,
                    budget_exceeded, loop_exit, stdout, step_over_issued, setup_error,
                    only_user_stops, recorded_signatures, stops_since_record, call >>

\* lines 493-496: signal.alarm(0)
FinallyDisarm ==
    /\ pc = "finally_disarm"
    /\ alarm_armed' = IF platform # "win32" /\ timeout_seconds > 0 THEN FALSE ELSE alarm_armed
    /\ pc' = "finally_kill"
    /\ UNCHANGED << platform, semantic_info, user_source_file, user_source_basename,
                    target, process, trace, step_id, last_frame_signature,
                    found_user_code, step_count, previous_locals, stuck_count, stop,
                    budget_exceeded, exc, loop_exit, stdout, step_over_issued,
                    setup_error, only_user_stops, recorded_signatures,
                    stops_since_record, call >>

\* lines 498-499: self.process.Kill() if the process is valid
FinallyKill ==
    /\ pc = "finally_kill"
    /\ process' = IF process \in { "none", "invalid" } THEN process ELSE "killed"
    /\ pc' = "return"
    /\ UNCHANGED << platform, semantic_info, user_source_file, user_source_basename,
                    target, trace, step_id, last_frame_signature, found_user_code,
                    step_count, previous_locals, stuck_count, stop, alarm_armed,
                    budget_exceeded, exc, loop_exit, stdout, step_over_issued,
                    setup_error, only_user_stops, recorded_signatures,
                    stops_since_record, call >>

\* line 501 and main lines 516-519: return the trace and print the document, or let
\* the exception in flight leave main; generate_trace's locals go out of scope and
\* the count of stops ends with the loop
Return ==
    /\ pc = "return"
    /\ stdout' = IF exc = "none"
       THEN Append(stdout, [ steps |-> trace, totalSteps |-> Len(trace) ])
       ELSE stdout
    /\ step_count' = 0
    /\ stuck_count' = 0
    /\ previous_locals' = << >>
    /\ stops_since_record' = 0
    /\ pc' = "done"
    /\ UNCHANGED << platform, semantic_info, user_source_file, user_source_basename,
                    target, process, trace, step_id, last_frame_signature,
                    found_user_code, stop, alarm_armed, budget_exceeded, exc,
                    loop_exit, step_over_issued, setup_error, only_user_stops,
                    recorded_signatures, call >>

\* lines 30-31: SIGALRM is delivered and timeout_handler raises TimeoutException
\* at the point control has reached: inside the try block it is caught (line 482);
\* before the try block, or in the finally block before signal.alarm(0), it leaves
\* generate_trace
AlarmFire ==
    /\ alarm_armed
    /\ pc \in TryPcs \cup { "start_time", "finally_disarm" }
    /\ alarm_armed' = FALSE
    /\ budget_exceeded' = TRUE
    /\ exc' = "TimeoutException"
    /\ loop_exit' = IF pc \in LoopPcs THEN "alarm" ELSE loop_exit
    /\ pc' = IF pc \in TryPcs THEN ExceptionLandsAt("TimeoutException") ELSE "done"
    /\ UNCHANGED << platform, semantic_info, user_source_file, user_source_basename,
                    target, process, trace, step_id, last_frame_signature,
                    found_user_code, step_count, previous_locals, stuck_count, stop,
                    stdout, step_over_issued, setup_error, only_user_stops,
                    recorded_signatures, stops_since_record, call >>

\* the wall clock passes start_time + timeout_seconds where no alarm is armed; the
\* clock is read at line 382 only, so the expiry is taken where it is observed.
\* With an alarm armed the expiry is AlarmFire
Tick ==
    /\ platform = "win32"
    /\ pc = "loop_head"
    /\ ~budget_exceeded
    /\ budget_exceeded' = TRUE
    /\ UNCHANGED << pc, platform, semantic_info, user_source_file,
                    user_source_basename, target, process, trace, step_id,
                    last_frame_signature, found_user_code, step_count, previous_locals,
                    stuck_count, stop, alarm_armed, exc, loop_exit, stdout,
                    step_over_issued, setup_error, only_user_stops,
                    recorded_signatures, stops_since_record, call >>


Next ==
    \/ Construct
    \/ ArmAlarm
    \/ StartTime
    \/ CreateTarget
    \/ CreateCheck
    \/ Launch
    \/ LaunchCheck
    \/ LoopInit
    \/ LoopHead
    \/ SrsMark
    \/ SrsCompare
    \/ RecordStep
    \/ IncStepId
    \/ Bookkeeping
    \/ NotRecorded
    \/ StepOver
    \/ FinalStep
    \/ FinalPrint
    \/ ExceptTimeout
    \/ FinallyDisarm
    \/ FinallyKill
    \/ Return
    \/ AlarmFire
    \/ Tick

Spec == Init /\ [][Next]_vars

\* the statements of main and generate_trace other than the two backend calls
\* that deliver a stop and the handler of TimeoutException
ControlStep ==
    \/ Construct
    \/ ArmAlarm
    \/ StartTime
    \/ CreateTarget
    \/ CreateCheck
    \/ LaunchCheck
    \/ LoopInit
    \/ LoopHead
    \/ SrsMark
    \/ SrsCompare
    \/ RecordStep
    \/ IncStepId
    \/ Bookkeeping
    \/ NotRecorded
    \/ FinalStep
    \/ FinalPrint
    \/ FinallyDisarm
    \/ FinallyKill
    \/ Return

\* the program's own steps when no alarm is delivered and the clock never
\* expires: TimeoutException is never raised and its handler never runs
ProgramStep == ControlStep \/ Launch \/ StepOver

\* every position of control in main and generate_trace
ProgramPcs ==
    TryPcs \cup { "main", "arm_alarm", "start_time", "except_timeout",
                  "finally_disarm", "finally_kill", "return", "done" }

\* control moves on: the interpreter executes the next statement, and a backend
\* call that was made returns
Running == pc # "done" /\ pc' \in ProgramPcs /\ pc' # pc

\* the session with no timeout at all: no alarm is delivered and the clock never
\* expires; until main has ended the interpreter keeps executing
SpecNoTimeout == Init /\ [][ProgramStep]_vars /\ WF_pc(Running)

\* generate_trace returned its trace to main
Returned == pc = "done" /\ exc = "none"

\* the steps of a trace that are not synthetic last steps
RecordedSteps(steps) == SelectSeq(steps, LAMBDA st : st.type \notin TerminalTypes)


-----------------------------------------------------------------------------
(* is_user_code on its own: frames and configurations drawn from small sets *)

FilterDirectories ==
    { "/home/u", "/home/u/iostream", "/home/u/proj/..", "/usr/include/c++/11", PyNone }

FilterFilenames ==
    { "main.cpp", "iostream_demo.cpp", "OStream.cpp", "istream.C", "streambuf.cc",
      "iosfwd.c", "ostream", "main.h", "" }

\* the source_file entry of the semantic info ('' when the key is missing)
FilterSourceFiles ==
    { "", "/home/u/main.cpp", "/home/u/iostream_demo.cpp", "streambuf.cc" }

FilterFrames ==
    { BackendFrame(d, f, 1, "main", 1, << >>) :
        d \in FilterDirectories, f \in FilterFilenames }
    \cup { InvalidFrame,
           [ BackendFrame("/home/u", "main.cpp", 1, "main", 1, << >>) EXCEPT
               !.line_entry_valid = FALSE ],
           [ BackendFrame("/home/u", "main.cpp", 1, "main", 1, << >>) EXCEPT
               !.file_spec_valid = FALSE ] }

InitFilter ==
    /\ SessionIdle
    /\ \E f \in FilterFrames, src \in FilterSourceFiles :
         call = [ fn |-> "is_user_code", returned |-> FALSE, frame |-> f,
                  info |-> [ given |-> TRUE, source_file |-> src ],
                  result |-> FALSE ]

\* __init__ configures the filter from the semantic info, is_user_code decides
CallIsUserCode ==
    /\ call.fn = "is_user_code"
    /\ ~call.returned
    /\ call' = [ call EXCEPT
                   !.returned = TRUE,
                   !.result = is_user_code(call.frame, InitUserSourceFile(call.info),
                                           InitUserSourceBasename(call.info)) ]
    /\ UNCHANGED sessionVars

NextFilter == CallIsUserCode

SpecFilter == InitFilter /\ [][NextFilter]_vars

-----------------------------------------------------------------------------
(* get_variable_info on its own *)

\* (type name, type class, GetType().IsArrayType())
VariableTypes ==
    { << "int", "Builtin", FALSE >>,
      << "double", "Builtin", FALSE >>,
      << "int *", "Pointer", FALSE >>,
      << "Point", "Struct", FALSE >>,
      << "Box<int *>", "Class", FALSE >>,
      << "int [250]", "Array", TRUE >>,
      << "char [4]", "Array", TRUE >>,
      << "row_t", "Typedef", TRUE >>,
      << "int *[2]", "Array", TRUE >> }

ChildCounts == { 0, 1, 2, 99, 100, 101, 250 }

ChildTypes == { "int", "char" }

VariableInputs ==
    { BackendVariable("a", ty[1], ty[2], ty[3], PyNone, n, ct, 7) :
        ty \in VariableTypes, n \in ChildCounts, ct \in ChildTypes }
    \cup { BackendVariable("a", ty[1], ty[2], ty[3], "5", 0, "", 0) : ty \in VariableTypes }

InitVarInfo ==
    /\ SessionIdle
    /\ \E v \in VariableInputs :
         call = [ fn |-> "get_variable_info", returned |-> FALSE, variable |-> v,
                  result |-> PyNone ]

CallGetVariableInfo ==
    /\ call.fn = "get_variable_info"
    /\ ~call.returned
    /\ call' = [ call EXCEPT !.returned = TRUE,
                             !.result = get_variable_info(call.variable) ]
    /\ UNCHANGED sessionVars

NextVarInfo == CallGetVariableInfo

SpecVarInfo == InitVarInfo /\ [][NextVarInfo]_vars

-----------------------------------------------------------------------------
(* detect_step_type on its own: the locals of the current and the previous frame *)

\* the longest list of variables a frame holds
MaxLocals == 2

ClassifyVariables ==
    { BackendVariable("x", "Point", "Struct", FALSE, PyNone, 2, "int", 3),
      IntVariable("x", "1"),
      IntVariable("y", "1"),
      IntVariable("y", "2"),
      BackendVariable("y", "int *", "Pointer", FALSE, "0x1000", 1, "int", 1),
      BackendVariable("z", "int [2]", "Array", TRUE, PyNone, 2, "int", 5) }

ClassifyFunctions ==
    { "main", "Point::Point", "Point::~Point", "Point::draw", "ns::Point::Point" }

\* the variables of the earlier frame
PreviousVariables ==
    { IntVariable("x", "1"),
      IntVariable("y", "1"),
      BackendVariable("z", "int [2]", "Array", TRUE, PyNone, 2, "int", 5) }

VariableLists == UNION { [ 1..n -> ClassifyVariables ] : n \in 0..MaxLocals }

PreviousLists == UNION { [ 1..n -> PreviousVariables ] : n \in 0..MaxLocals }

InitClassify ==
    /\ SessionIdle
    /\ \E cur \in VariableLists, prev \in PreviousLists, fname \in ClassifyFunctions :
         call = [ fn |-> "detect_step_type", returned |-> FALSE,
                  frame |-> BackendFrame("/home/u", "main.cpp", 3, fname, 1, cur),
                  previous |-> BackendFrame("/home/u", "main.cpp", 2, fname, 1, prev),
                  result |-> PyNone ]

\* the previous locals are the snapshot of an earlier frame
CallDetectStepType ==
    /\ call.fn = "detect_step_type"
    /\ ~call.returned
    /\ call' = [ call EXCEPT
                   !.returned = TRUE,
                   !.result = detect_step_type(get_frame_info(call.frame),
                                               get_frame_info(call.previous).locals) ]
    /\ UNCHANGED sessionVars

NextClassify == CallDetectStepType

SpecClassify == InitClassify /\ [][NextClassify]_vars

-----------------------------------------------------------------------------
(* Tracing the same target twice: main runs, the stops the backend delivered  *)
(* are kept, and main runs again against a backend that delivers them again   *)

\* the most stops a target of the rerun delivers before it has exited
MaxStream == 5

\* the stop at which the target has exited
ExitedStop == [ process_state |-> "exited", thread_valid |-> FALSE, frame |-> InvalidFrame ]

\* what a target that has delivered `stream` can deliver next: its last stop is its exit
NextStops(stream) == IF Len(stream) + 1 < MaxStream THEN StopEvents ELSE { ExitedStop }

\* a tracer object used for a second run keeps the signature it ended with
ReusedSignature(kept) == kept

\* line 50: a new LLDBTracer has no last signature
FreshSignature(kept) == NoSignature

InitRerun ==
    /\ pc = "main"
    /\ platform \in Platforms
    /\ semantic_info \in SessionInfos
    /\ user_source_file = ""
    /\ user_source_basename = PyNone
    /\ target = "none"
    /\ process = "none"
    /\ trace = << >>
    /\ step_id = 0
    /\ last_frame_signature = NoSignature
    /\ found_user_code = FALSE
    /\ step_count = 0
    /\ previous_locals = << >>
    /\ stuck_count = 0
    /\ stop = NoStop
    /\ alarm_armed = FALSE
    /\ budget_exceeded = FALSE
    /\ exc = "none"
    /\ loop_exit = "none"
    /\ stdout = << >>
    /\ step_over_issued = FALSE
    /\ setup_error = "none"
    /\ only_user_stops = TRUE
    /\ recorded_signatures = << >>
    /\ stops_since_record = 0
    /\ call = [ fn |-> "rerun", returned |-> FALSE, run |-> 1, stream |-> << >>,
                pos |-> 0, first |-> << >> ]

\* first run, launch_process: the stop delivered is kept
FirstLaunch ==
    /\ call.fn = "rerun"
    /\ call.run = 1
    /\ \E s \in StopEvents \cup { NoStop } :
         /\ LaunchAt(s)
         /\ call' = [ call EXCEPT !.stream = Append(@, s) ]

\* first run, StepOver: the stop delivered is kept
FirstStepOver ==
    /\ call.fn = "rerun"
    /\ call.run = 1
    /\ \E s \in NextStops(call.stream) :
         /\ StepOverAt(s)
         /\ call' = [ call EXCEPT !.stream = Append(@, s) ]

\* main is started again after a run that no timeout cut short: a new process, a
\* new LLDBTracer (lines 34-61), the same platform and arguments
NextSession ==
    /\ call.fn = "rerun"
    /\ call.run = 1
    /\ pc = "done"
    /\ ~budget_exceeded
    /\ call' = [ call EXCEPT !.run = 2, !.first = trace ]
    /\ pc' = "main"
    /\ user_source_file' = ""
    /\ user_source_basename' = PyNone
    /\ target' = "none"
    /\ process' = "none"
    /\ trace' = << >>
    /\ step_id' = 0
    /\ last_frame_signature' = FreshSignature(last_frame_signature)
    /\ found_user_code' = FALSE
    /\ step_count' = 0
    /\ previous_locals' = << >>
    /\ stuck_count' = 0
    /\ stop' = NoStop
    /\ alarm_armed' = FALSE
    /\ budget_exceeded' = FALSE
    /\ exc' = "none"
    /\ loop_exit' = "none"
    /\ stdout' = << >>
    /\ step_over_issued' = FALSE
    /\ setup_error' = "none"
    /\ only_user_stops' = TRUE
    /\ recorded_signatures' = << >>
    /\ stops_since_record' = 0
    /\ UNCHANGED << platform, semantic_info >>

\* second run, launch_process: the backend delivers the first run's stop again
SecondLaunch ==
    /\ call.fn = "rerun"
    /\ call.run = 2
    /\ call.pos < Len(call.stream)
    /\ LaunchAt(call.stream[call.pos + 1])
    /\ call' = [ call EXCEPT !.pos = @ + 1 ]

\* second run, StepOver: the backend delivers the first run's next stop again
SecondStepOver ==
    /\ call.fn = "rerun"
    /\ call.run = 2
    /\ call.pos < Len(call.stream)
    /\ StepOverAt(call.stream[call.pos + 1])
    /\ call' = [ call EXCEPT !.pos = @ + 1 ]

NextRerun ==
    \/ ControlStep
    \/ FirstLaunch
    \/ FirstStepOver
    \/ NextSession
    \/ SecondLaunch
    \/ SecondStepOver
    \/ AlarmFire
    \/ ExceptTimeout
    \/ Tick

SpecRerun == InitRerun /\ [][NextRerun]_vars


-----------------------------------------------------------------------------
(* Properties of the session *)

\* generate_trace got past target creation and process launch, and the
\* stepping loop has ended
LoopEnded == process \notin { "none", "invalid" } /\ loop_exit # "none"

LastStep == trace[Len(trace)]

\* C1 as stated: every call of generate_trace that gets past target creation
\* and process launch returns a non-empty trace whose last element has type
\* program_end or timeout, however the loop ended and however many steps
\* were recorded.
C1_TerminalGuarantee ==
    (Returned /\ LoopEnded) =>
        (trace # << >> /\ LastStep.type \in TerminalTypes)

\* C1 amended: a returned trace ends with a program_end or timeout step when
\* at least one step was recorded, and is empty when none was.
C1_TerminalWhenRecorded ==
    (Returned /\ LoopEnded) =>
        IF recorded_signatures = << >>
        THEN trace = << >>
        ELSE trace # << >> /\ LastStep.type \in TerminalTypes

C1_Witness ==
    /\ Returned
    /\ loop_exit = "no_frame"
    /\ Len(recorded_signatures) = 1
    /\ Len(trace) = 2
    /\ LastStep.type = "program_end"

\* C2: in every returned trace steps[i].id = i (0-based), the last step
\* included, wherever the timeout alarm fires.
C2_ContiguousIds ==
    Returned => \A i \in 1..Len(trace) : trace[i].id = i - 1

\* C3: no two consecutive recorded steps were recorded at frames with the
\* same signature (function, file, line, stack depth); every recorded step
\* of the trace has its signature in the record.
C3_SignatureUniqueness ==
    /\ Len(RecordedSteps(trace)) = Len(recorded_signatures)
    /\ \A i \in 1..(Len(recorded_signatures) - 1) :
         recorded_signatures[i] # recorded_signatures[i + 1]

C3_Witness ==
    /\ Len(recorded_signatures) >= 2
    /\ Len(RecordedSteps(trace)) >= 2
    /\ pc = "done"

\* C4: when the loop was stopped because the wall-clock budget was exceeded
\* (the alarm, or the manual check at the top of the loop), the synthetic
\* last step has type timeout and carries the line of the last recorded step.
C4_TimeoutStepOnBudget ==
    (Returned /\ loop_exit \in { "alarm", "manual_timeout" }) =>
        \A i \in 1..Len(trace) :
            trace[i].type \in TerminalTypes =>
                /\ trace[i].type = "timeout"
                /\ i > 1
                /\ trace[i].line = trace[i - 1].line

\* C5: on every exit from generate_trace a live process has been killed and
\* the alarm has been disarmed.
C5_CleanupOnEveryExit ==
    pc = "done" => (~is_process_running(process) /\ ~alarm_armed)

\* C6: once create_target or launch_process has raised, no StepOver is ever
\* issued, no step is appended, the exception leaves generate_trace and main
\* prints no document.
C6_SetupFailureIsFatal ==
    setup_error # "none" =>
        /\ ~step_over_issued
        /\ trace = << >>
        /\ stdout = << >>
        /\ pc \in { "finally_disarm", "finally_kill", "return", "done" }
        /\ exc # "none"

C6_Witness ==
    /\ pc = "done"
    /\ setup_error = "launch_process"
    /\ target = "valid"
    /\ stdout = << >>

\* C7: with a target that only ever delivers stopped user-code frames and a
\* budget that expires during the loop, generate_trace returns a trace whose
\* last step has type timeout, and the process has been killed.
C7_TimeoutTermination ==
    (pc = "done" /\ only_user_stops /\ loop_exit \in { "alarm", "manual_timeout" }
       /\ recorded_signatures # << >>) =>
        /\ exc = "none"
        /\ trace # << >>
        /\ LastStep.type = "timeout"
        /\ process = "killed"

-----------------------------------------------------------------------------
(* Properties of the pure helpers *)

\* the current local at index i is new and no new local precedes it
FirstNewLocal(cur, prev, i) ==
    /\ ~HasKey(prev, cur[i].name)
    /\ \A j \in 1..(i - 1) : HasKey(prev, cur[j].name)

\* C8: when the first new local x (in enumeration order) has kind class,
\* detect_step_type returns object_creation with className x's declared type
\* name and variable x, even if a local present in both snapshots changed.
C8_NewStateBeforeMutation ==
    (call.fn = "detect_step_type" /\ call.returned) =>
        LET cur == get_frame_info(call.frame).locals
            prev == get_frame_info(call.previous).locals
        IN  \A i \in 1..Len(cur) :
              (FirstNewLocal(cur, prev, i) /\ cur[i].primitive = "class") =>
                  /\ call.result.type = "object_creation"
                  /\ call.result.className = cur[i].type
                  /\ call.result.variable = cur[i].name

C8_Witness ==
    /\ call.fn = "detect_step_type"
    /\ call.returned
    /\ call.result.type = "object_creation"
    /\ call.result.variable = "x"
    /\ call.result.className = "Point"
    /\ LET cur == get_frame_info(call.frame).locals
           prev == get_frame_info(call.previous).locals
       IN  /\ ~HasKey(prev, "x")
           /\ HasKey(prev, "y") /\ HasKey(cur, "y")
           /\ PyStr(Lookup(cur, "y").value) # PyStr(Lookup(prev, "y").value)

\* the step type the claim gives for a new local of the given structural kind
DeclarationType(kind) ==
    IF kind = "class" THEN "object_creation"
    ELSE IF kind = "pointer" THEN "pointer_declaration"
    ELSE IF kind = "array" THEN "array_declaration"
    ELSE "variable_declaration"

\* C17: when a current local is absent from the previous locals, the result
\* is decided by the first such local alone: its kind gives the step type
\* (class: object_creation with className and the variable name; pointer:
\* pointer_declaration; array: array_declaration; else variable_declaration),
\* whatever later new locals and value changes there are.
C17_FirstNewLocalDecides ==
    (call.fn = "detect_step_type" /\ call.returned) =>
        LET cur == get_frame_info(call.frame).locals
            prev == get_frame_info(call.previous).locals
        IN  \A i \in 1..Len(cur) :
              FirstNewLocal(cur, prev, i) =>
                  /\ call.result.type = DeclarationType(cur[i].primitive)
                  /\ call.result.variable = cur[i].name
                  /\ call.result.className =
                         IF cur[i].primitive = "class" THEN cur[i].type ELSE PyNone
                  /\ call.result.objectName =
                         IF cur[i].primitive = "class" THEN cur[i].name ELSE PyNone

\* two new locals, a pointer then an array: the pointer decides
C17_Witness ==
    /\ call.fn = "detect_step_type"
    /\ call.returned
    /\ call.result.type = "pointer_declaration"
    /\ LET cur == get_frame_info(call.frame).locals
           prev == get_frame_info(call.previous).locals
       IN  /\ Len(cur) = 2
           /\ ~HasKey(prev, cur[1].name)
           /\ ~HasKey(prev, cur[2].name)
           /\ cur[1].primitive = "pointer"
           /\ cur[2].primitive = "array"
           /\ call.result.variable = cur[1].name

\* the local at index i is in both snapshots and its textual value differs
ValueDiffers(cur, prev, i) ==
    /\ HasKey(prev, cur[i].name)
    /\ PyStr(cur[i].value) # PyStr(Lookup(prev, cur[i].name).value)

\* C18: when no current local is new, the result is assignment for the first
\* local whose textual value differs from its previous value; when none
\* differs, a function name containing '::' whose last component equals the
\* second-to-last gives object_creation (class name only), a last component
\* starting with '~' gives object_destruction, and everything else
\* line_execution.
C18_ChangeThenLifecycle ==
    (call.fn = "detect_step_type" /\ call.returned) =>
        LET cur == get_frame_info(call.frame).locals
            prev == get_frame_info(call.previous).locals
            fname == get_frame_info(call.frame).function
            parts == Split(fname, "::")
            qualified == Contains(fname, "::") /\ Len(parts) >= 2
        IN  (\A i \in 1..Len(cur) : HasKey(prev, cur[i].name)) =>
              IF \E i \in 1..Len(cur) : ValueDiffers(cur, prev, i)
              THEN \E i \in 1..Len(cur) :
                     /\ ValueDiffers(cur, prev, i)
                     /\ \A j \in 1..(i - 1) : ~ValueDiffers(cur, prev, j)
                     /\ call.result = StepTypeInfo("assignment", PyNone, PyNone, cur[i].name)
              ELSE IF qualified /\ parts[Len(parts)] = parts[Len(parts) - 1]
              THEN call.result =
                     StepTypeInfo("object_creation", parts[Len(parts) - 1], PyNone, PyNone)
              ELSE IF qualified /\ StartsWith(parts[Len(parts)], "~")
              THEN call.result =
                     StepTypeInfo("object_destruction", parts[Len(parts) - 1], PyNone, PyNone)
              ELSE call.result = StepTypeInfo("line_execution", PyNone, PyNone, PyNone)

\* inside a constructor, x unchanged and y changed: assignment to y
C18_Witness ==
    /\ call.fn = "detect_step_type"
    /\ call.returned
    /\ call.result.type = "assignment"
    /\ call.result.variable = "y"
    /\ call.frame.function = "Point::Point"
    /\ LET cur == get_frame_info(call.frame).locals
           prev == get_frame_info(call.previous).locals
       IN  /\ Len(cur) = 2
           /\ cur[1].name = "x"
           /\ HasKey(prev, "x") /\ HasKey(prev, "y")
           /\ ~ValueDiffers(cur, prev, 1)
           /\ ValueDiffers(cur, prev, 2)

StreamMarkers == { "iostream", "ostream", "istream", "streambuf", "iosfwd" }

HasStreamMarker(text) == \E m \in StreamMarkers : Contains(text, m)

\* C9 as stated: is_user_code is never true for a frame whose directory or
\* filename contains a stream-library marker, whatever the configured target.
C9_FilterConservatism ==
    (call.fn = "is_user_code" /\ call.returned
       /\ (HasStreamMarker(call.frame.filename)
             \/ (~Falsy(call.frame.directory) /\ HasStreamMarker(call.frame.directory))))
    => ~call.result

\* C9 amended: is_user_code is never true for a frame whose filename contains
\* a stream-library marker (in any letter case), unless the frame's path is
\* the configured target source path or its filename the configured basename.
C9_FilterConservatismUnlessConfigured ==
    (call.fn = "is_user_code" /\ call.returned
       /\ call.frame.valid
       /\ HasStreamMarker(Lower(call.frame.filename))
       /\ ~MatchesSourceFile(call.frame, InitUserSourceFile(call.info))
       /\ ~MatchesBasename(call.frame, InitUserSourceBasename(call.info)))
    => ~call.result

C9_Witness ==
    /\ call.fn = "is_user_code"
    /\ call.returned
    /\ call.frame.filename = "OStream.cpp"
    /\ call.frame.directory = "/home/u"
    /\ call.info.source_file = "/home/u/main.cpp"
    /\ ~call.result

\* C10: a variable classified as array with n children gets exactly
\* min(n, 100) element entries, entry k being child k (n = 250 gives 100).
C10_ArrayTruncation ==
    (call.fn = "get_variable_info" /\ call.returned /\ call.result.primitive = "array") =>
        LET n == call.variable.num_children
            items == call.result.value.items
        IN  /\ Len(items) = IF n < 100 THEN n ELSE 100
            /\ n = 250 => Len(items) = 100
            /\ \A k \in 1..Len(items) :
                 items[k].s = ToString(call.variable.child_base + k - 1)

C10_Witness ==
    /\ call.fn = "get_variable_info"
    /\ call.returned
    /\ call.result.primitive = "array"
    /\ call.variable.num_children = 250
    /\ Len(call.result.value.items) = 100
    /\ call.result.value.items[100].s = "106"

-----------------------------------------------------------------------------
(* Properties of the session: construction, the counters of the loop *)

\* C12: started without semantic info (semantic_info is None), construction
\* succeeds with no configured source path and no basename, and the session
\* goes on to target creation.
C12_OptionalSemanticInfo ==
    (~semantic_info.given /\ pc # "main") =>
        /\ exc # "AttributeError"
        /\ Falsy(user_source_file)
        /\ user_source_basename = PyNone
        /\ pc = "done" => target # "none"

\* positions of the loop at which the current stop has not been counted yet
PendingStopPcs == { "loop_head", "srs_mark", "srs_compare", "not_recorded", "record_step" }

\* C13: the stuck counter is the number of stops delivered since the last
\* recorded step and not recorded: a recorded step resets it, a stop that is
\* not recorded adds one, the loop ends once it exceeds 200 (at 201) and no
\* StepOver is issued after that; it never exceeds 201.
C13_StuckCounter ==
    /\ stuck_count \in 0..(max_stuck + 1)
    /\ pc \in PendingStopPcs => stops_since_record = stuck_count + 1
    /\ pc \in { "inc_step_id", "bookkeeping" } => stops_since_record = 0
    /\ pc = "step_over" => (stuck_count = stops_since_record /\ stuck_count <= max_stuck)
    /\ (pc = "final_step" /\ loop_exit = "stuck") =>
           (stuck_count = max_stuck + 1 /\ stops_since_record = max_stuck + 1)
    /\ (pc = "final_step" /\ stuck_count > max_stuck) => loop_exit = "stuck"

\* 200 stops in a row were not recorded and the next one is being recorded
C13_Witness ==
    /\ pc = "record_step"
    /\ stuck_count = max_stuck
    /\ stops_since_record = max_stuck + 1
    /\ loop_exit = "none"

\* C14: a session never records more than max_steps steps, and a returned
\* trace has at most max_steps + 1 elements.
C14_StepBound ==
    /\ Len(RecordedSteps(trace)) <= MaxSteps
    /\ Returned => Len(trace) <= MaxSteps + 1

\* iterations the loop can still run: steps left to record, each after up to
\* max_stuck stops that are not recorded
Rank == (MaxSteps - step_count) * (max_stuck + 1) - stuck_count

\* C15: with no timeout at all and every backend call returning, the loop ends
\* whatever stops the backend delivers: every iteration records a step or
\* counts a stop, which lowers a measure that starts at max_steps * 201 and
\* never goes below 0, and the session reaches the end of main.
C15_LoopTerminates ==
    /\ [](pc \in LoopPcs => Rank \in 0..(MaxSteps * 201))
    /\ [][(pc \in LoopPcs /\ pc' \in LoopPcs) => Rank >= Rank']_vars
    /\ [][(pc \in { "not_recorded", "bookkeeping" }) => Rank > Rank']_vars
    /\ <>(pc = "done")

\* the loop was left because 201 stops in a row were not recorded, and main ended
C15_Witness ==
    /\ pc = "done"
    /\ loop_exit = "stuck"
    /\ exc = "none"
    /\ ~budget_exceeded
    /\ stdout # << >>

\* the ways the loop ends that are not a timeout
NormalExits == { "process_ended", "no_thread", "no_frame", "step_limit", "stuck" }

\* the loop ended without timeout, lines 463-477 have run, and no timeout
\* occurred in the session
FinalStepDone ==
    /\ loop_exit \in NormalExits
    /\ ~budget_exceeded
    /\ pc \in { "final_print", "finally_disarm", "finally_kill", "return", "done" }

ProgramEndIndexes == { i \in 1..Len(trace) : trace[i].type = "program_end" }

\* C16 as stated: when the loop ends without timeout, exactly one program_end
\* step is appended, with the line of the last recorded step and an empty
\* state, and a missing thread or frame is not an error.
C16_ProgramEndOnNormalExit ==
    FinalStepDone =>
        /\ Cardinality(ProgramEndIndexes) = 1
        /\ trace # << >>
        /\ LastStep.type = "program_end"
        /\ LastStep.state = EmptyState
        /\ Len(trace) > 1 => LastStep.line = trace[Len(trace) - 1].line
        /\ exc = "none"

\* C16 amended: when the loop ends without timeout after at least one step
\* was recorded, exactly one program_end step is appended, last, with the line
\* of the last recorded step and an empty call stack, globals, stack and heap;
\* when no step was recorded nothing is appended; in both cases no error is
\* raised and main prints the document.
C16_ProgramEndWhenRecorded ==
    FinalStepDone =>
        /\ exc = "none"
        /\ pc = "done" => stdout = << [ steps |-> trace, totalSteps |-> Len(trace) ] >>
        /\ IF recorded_signatures = << >>
           THEN trace = << >>
           ELSE /\ Len(trace) = Len(recorded_signatures) + 1
                /\ ProgramEndIndexes = { Len(trace) }
                /\ trace[Len(trace) - 1].type \notin TerminalTypes
                /\ LastStep.line = trace[Len(trace) - 1].line
                /\ LastStep.state = EmptyState

\* a step recorded at line 2, then the backend has no valid thread
C16_Witness ==
    /\ FinalStepDone
    /\ pc = "done"
    /\ loop_exit = "no_thread"
    /\ Len(trace) = 2
    /\ trace[1].type \notin TerminalTypes
    /\ trace[1].line = 2
    /\ LastStep.type = "program_end"
    /\ LastStep.line = 2
    /\ stdout # << >>

-----------------------------------------------------------------------------
(* Properties of a rerun *)

\* the (type, line, function) of each step of a trace
Outline(steps) ==
    [ i \in 1..Len(steps) |-> << steps[i].type, steps[i].line, steps[i].function >> ]

\* the second run has ended, has consumed every stop of the first, and no
\* timeout cut it short (the first run is only repeated if none cut it short)
RerunCompleted ==
    /\ call.fn = "rerun"
    /\ call.run = 2
    /\ pc = "done"
    /\ ~budget_exceeded
    /\ call.pos = Len(call.stream)

ExaminingPcs == { "srs_mark", "srs_compare", "not_recorded" }

\* the current stop is one should_record_step rejects: its frame is not user
\* code (or has no valid thread), or its signature is the last recorded one
StopRejected ==
    \/ ~is_user_code(stop.frame, user_source_file, user_source_basename)
    \/ ~stop.frame.thread_valid
    \/ FrameSignature(stop.frame) = last_frame_signature

\* the locals of the step recorded last ({} before the first)
LastRecordedLocals ==
    IF trace = << >> THEN << >> ELSE LastStep.state.callStack[1].locals

\* the signature recorded last (None before the first)
LastRecordedSignature ==
    IF recorded_signatures = << >> THEN NoSignature
    ELSE recorded_signatures[Len(recorded_signatures)]

\* C19: a stop that is not recorded leaves the last signature, the previous
\* locals, the trace, the next step id (and found_user_code, step_count)
\* unchanged and adds one to the stuck counter; so the last signature and the
\* previous locals are always those of the last recorded step, a stop with
\* that signature is never recorded, and each recorded step is classified
\* against the locals of the recorded step before it.
C19_UnrecordedStopHasNoEffect ==
    /\ [](pc = "not_recorded" => StopRejected)
    /\ []((pc \in LoopPcs \ { "record_step" }) =>
             last_frame_signature = LastRecordedSignature)
    /\ [](pc = "record_step" => FrameSignature(stop.frame) # LastRecordedSignature)
    /\ []((pc \in LoopPcs \ { "inc_step_id", "bookkeeping" }) =>
             previous_locals = LastRecordedLocals)
    /\ [][(pc \in ExaminingPcs /\ StopRejected) =>
             /\ last_frame_signature' = last_frame_signature
             /\ previous_locals' = previous_locals
             /\ trace' = trace
             /\ step_id' = step_id
             /\ step_count' = step_count
             /\ found_user_code' = found_user_code
             /\ stuck_count' = IF pc = "not_recorded" /\ pc' \in { "step_over", "final_step" }
                               THEN stuck_count + 1 ELSE stuck_count]_vars

\* the first run recorded main.cpp:N, stopped in a frame that is not user code,
\* stopped at main.cpp:N again, and recorded nothing more
C19_Witness ==
    /\ call.fn = "rerun"
    /\ call.run = 1
    /\ pc = "done"
    /\ ~budget_exceeded
    /\ Len(call.stream) = 4
    /\ IsUserStop(call.stream[1], user_source_file, user_source_basename)
    /\ call.stream[2].frame.valid
    /\ ~IsUserStop(call.stream[2], user_source_file, user_source_basename)
    /\ call.stream[3] = call.stream[1]
    /\ Len(RecordedSteps(trace)) = 1
    /\ Len(trace) = 2

\* C20: every variable whose type name contains '[' or whose type is
\* array-typed gets kind array, and every variable that is not an aggregate
\* (neither class/struct nor array) and whose type name contains '*' gets kind
\* pointer with the raw formatted value, for every combination of the three
\* features.
C20_StructuralClassification ==
    (call.fn = "get_variable_info" /\ call.returned) =>
        LET v == call.variable
            bracketed == Contains(v.type_name, "[") \/ v.is_array_type
            class_typed == v.type_class \in { "Class", "Struct" }
        IN  /\ bracketed => call.result.primitive = "array"
            /\ (~class_typed /\ ~bracketed /\ Contains(v.type_name, "*")) =>
                   /\ call.result.primitive = "pointer"
                   /\ call.result.value = get_variable_value(v)
                   /\ call.result.value.t \notin { "list", "members" }

-----------------------------------------------------------------------------
(* Properties of the session: the last step, the flags of should_record_step *)

TerminalIndexes == { i \in 1..Len(trace) : trace[i].type \in TerminalTypes }

\* C21: a returned trace contains at most one step of type program_end or
\* timeout, and that step is its last element, wherever the alarm fires
\* relative to the end of the loop and the appending of program_end.
C21_SingleTerminalStep ==
    Returned => TerminalIndexes \subseteq { Len(trace) }

\* the signature, the flag and the trace say the same about user code
UserCodeSeen ==
    /\ found_user_code <=> (last_frame_signature # NoSignature)
    /\ found_user_code <=> (trace # << >>)
    /\ found_user_code <=> (recorded_signatures # << >>)

\* the top of an iteration, the else branch with its diagnosis (lines 450-458),
\* the end of an iteration and the exit of the loop
LoopBoundaryPcs == { "loop_head", "not_recorded", "step_over", "final_step" }

\* C22: at every loop boundary of a session found_user_code is true exactly
\* when last_frame_signature is not None, exactly when at least one step has
\* been recorded; so when the loop gives up after 201 unrecorded stops, the
\* "never saw user code" branch is taken exactly when the trace is empty.
C22_FoundUserCodeIffRecorded ==
    /\ pc \in LoopBoundaryPcs => UserCodeSeen
    /\ (pc = "final_step" /\ loop_exit = "stuck") => (~found_user_code <=> trace = << >>)

\* a user-code stop was recorded, then the same frame came back 201 times:
\* the flag was set again before each comparison and the loop gave up
C22_Witness ==
    /\ pc = "final_step"
    /\ loop_exit = "stuck"
    /\ found_user_code
    /\ Len(trace) = 1
    /\ last_frame_signature = FrameSignature(stop.frame)

====
